---------------------------- MODULE Spec2Model ----------------------------
(***************************************************************************)
(* mc-map-exporter: decodes Minecraft map_*.dat files (gzip + NBT) and     *)
(* renders the palette-indexed colour grid of each one into a PNG.         *)
(*                                                                         *)
(* Two drivers are in the repository:                                      *)
(*   src/main.go           one goroutine per matching file, sync.WaitGroup *)
(*   src/unnamed/part_000  the same pipeline run in a sequential loop      *)
(* They share multiplyColor, createAllColors, createImageFromPixels,       *)
(* openFile and gunzipWrite.                                               *)
(*                                                                         *)
(* Specifications:                                                         *)
(*   Spec         main of src/main.go with its worker goroutines           *)
(*   SpecSeq      main of src/unnamed/part_000                             *)
(*   SpecScale    multiplyColor applied to bounded inputs                  *)
(*   SpecPalette  createAllColors applied to bounded tables                *)
(*   SpecRender   palette lookup + createImageFromPixels on bounded grids  *)
(***************************************************************************)
EXTENDS Integers, Sequences, FiniteSets, TLC

VARIABLES
    inputFolder,          \* value of -i after flag.Parse (path sections)
    outputFolder,         \* value of -o after flag.Parse
    pc,                   \* position of the main goroutine
    proc,                 \* the OS process: running, or exited with a status
    entries,              \* result of os.ReadDir(inputFolder)
    outputFolderFullPath, \* resolved output directory
    paletteBuilt,         \* allColors has been assigned
    next,                 \* index of the range loop over entries
    wg,                   \* sync.WaitGroup counter
    workers,              \* per entry: the goroutine (or loop body) run for it
    outFiles,             \* per entry: the output file on disk
    stdout,               \* lines printed by main
    syscalls,             \* file-system calls made so far
    call                  \* harness for the pure-function specifications

vars == <<inputFolder, outputFolder, pc, proc, entries, outputFolderFullPath,
          paletteBuilt, next, wg, workers, outFiles, stdout, syscalls, call>>

driverVars == <<inputFolder, outputFolder, pc, proc, entries,
                outputFolderFullPath, paletteBuilt, next, wg, workers,
                outFiles, stdout, syscalls>>

(***************************************************************************)
(* Tables and pure functions                                               *)
(***************************************************************************)

\* type Pixel [4]uint8: channel values are 0..MaxUint8
MaxUint8 == 255

\* uint8(x) conversion of a non-negative integer
Uint8(x) == x % (MaxUint8 + 1)

baseColors ==
    <<
    <<0, 0, 0, 0>>,
    <<127, 178, 56, 255>>,
    <<247, 233, 163, 255>>,
    <<199, 199, 199, 255>>,
    <<255, 0, 0, 255>>,
    <<160, 160, 255, 255>>,
    <<167, 167, 167, 255>>,
    <<0, 124, 0, 255>>,
    <<255, 255, 255, 255>>,
    <<164, 168, 184, 255>>,
    <<151, 109, 77, 255>>,
    <<112, 112, 112, 255>>,
    <<64, 64, 255, 255>>,
    <<143, 119, 72, 255>>,
    <<255, 252, 245, 255>>,
    <<216, 127, 51, 255>>,
    <<178, 76, 216, 255>>,
    <<102, 153, 216, 255>>,
    <<229, 229, 51, 255>>,
    <<127, 204, 25, 255>>,
    <<242, 127, 165, 255>>,
    <<76, 76, 76, 255>>,
    <<153, 153, 153, 255>>,
    <<76, 127, 153, 255>>,
    <<127, 63, 178, 255>>,
    <<51, 76, 178, 255>>,
    <<102, 76, 51, 255>>,
    <<102, 127, 51, 255>>,
    <<153, 51, 51, 255>>,
    <<25, 25, 25, 255>>,
    <<250, 238, 77, 255>>,
    <<92, 219, 213, 255>>,
    <<74, 128, 255, 255>>,
    <<0, 217, 58, 255>>,
    <<129, 86, 49, 255>>,
    <<112, 2, 0, 255>>,
    <<209, 177, 161, 255>>,
    <<159, 82, 36, 255>>,
    <<149, 87, 108, 255>>,
    <<112, 108, 138, 255>>,
    <<186, 133, 36, 255>>,
    <<103, 117, 53, 255>>,
    <<160, 77, 78, 255>>,
    <<57, 41, 35, 255>>,
    <<135, 107, 98, 255>>,
    <<87, 92, 92, 255>>,
    <<122, 73, 88, 255>>,
    <<76, 62, 92, 255>>,
    <<76, 50, 35, 255>>,
    <<76, 82, 42, 255>>,
    <<142, 60, 46, 255>>,
    <<37, 22, 16, 255>>,
    <<189, 48, 49, 255>>,
    <<148, 63, 97, 255>>,
    <<92, 25, 29, 255>>,
    <<22, 126, 134, 255>>,
    <<58, 142, 140, 255>>,
    <<86, 44, 62, 255>>,
    <<20, 180, 133, 255>>,
    <<100, 100, 100, 255>>,
    <<216, 175, 147, 255>>,
    <<127, 167, 150, 255>>
    >>

multipliers == <<180, 220, 255, 135>>

\* faulty variant: rounds to nearest instead of flooring
FloorQuotientRounded(channelValue, multiplier) ==
    (channelValue * multiplier + 127) \div 255

\* math.Floor(float64(channelValue) * float64(multiplier) / 255.0).
\* The product of two uint8 values (at most 65025) is exact in float64.  The
\* quotient by 255.0 is an integer exactly when 255 divides the product, and
\* is otherwise at least 1/255 away from every integer, far more than the
\* rounding error of one float64 division, so the floor of the rounded
\* quotient is the floor of the exact rational: the quotient of Euclidean
\* division of the product by 255.
FloorQuotient(channelValue, multiplier) == (channelValue * multiplier) \div 255

\* multiplyColor: channels 0..2 are scaled, channel 3 (alpha) is copied.
\* Go indexes from 0; the tuple is indexed from 1.
multiplyColor(inputPixel, multiplier) ==
    [i \in 1..4 |->
        IF i - 1 < 3
            THEN Uint8(FloorQuotient(inputPixel[i], multiplier))
            ELSE inputPixel[i]]

\* The loops of createAllColors carry the slice allColors as an accumulator.
\* TLC evaluates operator arguments lazily; the conjunct Len(allColors) >= 0
\* (always true) makes it evaluate the accumulator at every iteration
\* instead of nesting 248 suspended appends.

\* inner loop, for _, multiplier := range multipliers, from its j-th
\* iteration on: allColors = append(allColors, multiplyColor(color, multiplier))
RECURSIVE appendMultiplied(_, _, _, _)
appendMultiplied(allColors, color, ms, j) ==
    IF Len(allColors) >= 0 /\ j <= Len(ms)
        THEN appendMultiplied(Append(allColors, multiplyColor(color, ms[j])),
                              color, ms, j + 1)
        ELSE allColors

\* outer loop, for _, color := range baseColors, from its i-th iteration on
RECURSIVE appendBaseColors(_, _, _, _)
appendBaseColors(allColors, bs, ms, i) ==
    IF Len(allColors) >= 0 /\ i <= Len(bs)
        THEN appendBaseColors(appendMultiplied(allColors, bs[i], ms, 1),
                              bs, ms, i + 1)
        ELSE allColors

\* faulty variant: the two loops swapped (outer over multipliers, inner over
\* base colours)
RECURSIVE appendSwappedInner(_, _, _, _)
appendSwappedInner(allColors, bs, multiplier, i) ==
    IF Len(allColors) >= 0 /\ i <= Len(bs)
        THEN appendSwappedInner(
                 Append(allColors, multiplyColor(bs[i], multiplier)),
                 bs, multiplier, i + 1)
        ELSE allColors

RECURSIVE appendSwappedOuter(_, _, _, _)
appendSwappedOuter(allColors, bs, ms, j) ==
    IF Len(allColors) >= 0 /\ j <= Len(ms)
        THEN appendSwappedOuter(appendSwappedInner(allColors, bs, ms[j], 1),
                                bs, ms, j + 1)
        ELSE allColors

createAllColorsSwapped(bs, ms) == appendSwappedOuter(<<>>, bs, ms, 1)

\* createAllColors(baseColors, multipliers) of part_000; main.go's
\* createAllColors() is the same loop over its two local tables.
createAllColors(bs, ms) == appendBaseColors(<<>>, bs, ms, 1)

\* the palette main builds: allColors := createAllColors()
AllColors == createAllColors(baseColors, multipliers)

\* int(math.Sqrt(float64(n))): math.Sqrt is correctly rounded and n is far
\* below 2^52, so the truncation is the integer square root, found here by
\* counting up.
RECURSIVE sqrtFrom(_, _)
sqrtFrom(n, s) == IF (s + 1) * (s + 1) > n THEN s ELSE sqrtFrom(n, s + 1)

IntSqrt(n) == sqrtFrom(n, 0)

\* faulty variant: rows and columns exchanged
pixelIndexTransposed(x, y, sideLength) == x * sideLength + y

\* index := y*sideLength + x (0-based position in pixels)
pixelIndex(x, y, sideLength) == y * sideLength + x

\* createImageFromPixels: an image.RGBA of Rect(0, 0, side, side) with
\* img.Set(x, y, pixels[index]) for every y, x below side.
createImageFromPixels(pixels) ==
    LET sideLength == IntSqrt(Len(pixels))
        coords == (0 .. sideLength - 1) \X (0 .. sideLength - 1)
    IN  [side |-> sideLength,
         at   |-> [xy \in coords |->
                      pixels[pixelIndex(xy[1], xy[2], sideLength) + 1]]]

\* for _, c := range colors { pixels = append(pixels, allColors[c]) }
\* allColors[c] with c >= len(allColors) is a run-time panic (index out of
\* range); the loop stops at the first such c.
lookupPixels(colors, palette) ==
    IF \E j \in 1..Len(colors) : colors[j] >= Len(palette)
        THEN [panicked |-> TRUE, pixels |-> <<>>]
        ELSE [panicked |-> FALSE,
              pixels   |-> [j \in 1..Len(colors) |-> palette[colors[j] + 1]]]

(***************************************************************************)
(* File names, directory contents and file contents                        *)
(***************************************************************************)

\* strings.HasPrefix / strings.HasSuffix on names held as character tuples
HasPrefix(s, prefix) ==
    Len(s) >= Len(prefix) /\ SubSeq(s, 1, Len(prefix)) = prefix

HasSuffix(s, suffix) ==
    Len(s) >= Len(suffix) /\
        SubSeq(s, Len(s) - Len(suffix) + 1, Len(s)) = suffix

\* strings.HasPrefix(e.Name(), "map_") && strings.HasSuffix(e.Name(), ".dat")
Matches(name) ==
    HasPrefix(name, <<"m", "a", "p", "_">>) /\
        HasSuffix(name, <<".", "d", "a", "t">>)

\* entry.Name()[:len(entry.Name())-4] + ".png"
outputFileName(name) == SubSeq(name, 1, Len(name) - 4) \o <<".", "p", "n", "g">>

\* names a data folder may hold, in the order os.ReadDir returns them
\* (sorted by file name): idcounts.dat, map_0.dat, map_1.dat, map_2.dat,
\* map_3.png
DirNames ==
    << <<"i", "d", "c", "o", "u", "n", "t", "s", ".", "d", "a", "t">>,
       <<"m", "a", "p", "_", "0", ".", "d", "a", "t">>,
       <<"m", "a", "p", "_", "1", ".", "d", "a", "t">>,
       <<"m", "a", "p", "_", "2", ".", "d", "a", "t">>,
       <<"m", "a", "p", "_", "3", ".", "p", "n", "g">> >>

\* most entries in a drawn input directory
MaxEntries == 3

\* the k-th smallest element of a set of indices
RECURSIVE kthOf(_, _)
kthOf(S, k) ==
    LET least == CHOOSE x \in S : \A y \in S : x <= y
    IN  IF k = 1 THEN least ELSE kthOf(S \ {least}, k - 1)

\* the sorted listings of at most MaxEntries names
DirListings ==
    {[k \in 1..Cardinality(S) |-> DirNames[kthOf(S, k)]] :
        S \in {T \in SUBSET (1..Len(DirNames)) : Cardinality(T) <= MaxEntries}}

\* nodes of the tree nbt.Unmarshal builds into a map[string]interface{}
Compound(fields) == [kind |-> "compound", fields |-> fields, bytes |-> <<>>]
ByteArray(bytes) == [kind |-> "bytearray", fields |-> <<>>, bytes |-> bytes]
IntArray         == [kind |-> "intarray", fields |-> <<>>, bytes |-> <<>>]
IntTag           == [kind |-> "int", fields |-> <<>>, bytes |-> <<>>]
NilValue         == [kind |-> "nil", fields |-> <<>>, bytes |-> <<>>]

\* m[key] on a Go map: the nil interface when the key is absent
MapIndex(m, key) == IF key \in DOMAIN m THEN m[key] ELSE NilValue

\* a file on disk: whether it can be read, the state of its gzip stream
\* and of its NBT payload, and the tree a successful decode yields
File(read, gz, nbt, root) ==
    [read |-> read, gzip |-> gz, nbt |-> nbt, root |-> root]

MapFile(colors) ==
    File("ok", "ok", "ok", [data |-> Compound([colors |-> ByteArray(colors)])])

\* contents a map_*.dat file is drawn from
FileSamples ==
    << MapFile(<<0, 1, 2, 3>>),
       MapFile(<<133>>),
       MapFile(<<4, 250>>),
       File("error", "ok", "ok", <<>>),
       File("ok", "badheader", "ok", <<>>),
       File("ok", "truncated", "ok", <<>>),
       File("ok", "ok", "malformed", <<>>),
       File("ok", "ok", "ok", [DataVersion |-> IntTag]),
       File("ok", "ok", "ok", [data |-> IntTag]),
       File("ok", "ok", "ok", [data |-> Compound([scale |-> IntTag])]),
       File("ok", "ok", "ok", [data |-> Compound([colors |-> IntArray])]) >>

\* gunzipWrite: the error of gzip.NewReader is overwritten and its nil
\* reader handed to io.ReadAll, whose first Read dereferences it (a run-time
\* panic); an error met while reading the stream is returned.
gunzipWrite(file) ==
    CASE file.gzip = "badheader" -> "panic"
      [] file.gzip = "truncated" -> "error"
      [] OTHER -> "ok"

\* openFile: log.Fatal on a read, gunzip or unmarshal error
openFile(file) ==
    IF file.read # "ok" THEN [outcome |-> "fatal", mapdata |-> <<>>]
    ELSE IF gunzipWrite(file) = "panic"
        THEN [outcome |-> "panic", mapdata |-> <<>>]
    ELSE IF gunzipWrite(file) = "error"
        THEN [outcome |-> "fatal", mapdata |-> <<>>]
    ELSE IF file.nbt # "ok" THEN [outcome |-> "fatal", mapdata |-> <<>>]
    ELSE [outcome |-> "ok", mapdata |-> file.root]

\* data := mapdata["data"].(map[string]interface{})
\* colors := data["colors"].([]uint8)
\* A type assertion without the comma-ok form panics when the dynamic type
\* differs (the nil interface of a missing key included).
extractColors(mapdata) ==
    LET data == MapIndex(mapdata, "data")
    IN  IF data.kind # "compound"
            THEN [panicked |-> TRUE, colors |-> <<>>]
            ELSE LET c == MapIndex(data.fields, "colors")
                 IN  IF c.kind # "bytearray"
                         THEN [panicked |-> TRUE, colors |-> <<>>]
                         ELSE [panicked |-> FALSE, colors |-> c.bytes]

\* decode failures of openFile
DecodeFails(file) == openFile(file).outcome # "ok"

\* a decoded tree without data.colors as a byte array
ShapeFails(file) == ~DecodeFails(file) /\ extractColors(file.root).panicked

(***************************************************************************)
(* Process and driver state shared by the specifications                   *)
(***************************************************************************)

Running == [state |-> "running", code |-> 0]
Exited(status) == [state |-> "exited", code |-> status]

NoCall == [op |-> "none"]

\* the driver before main has done anything; the pure-function
\* specifications leave it there
DriverIdle ==
    /\ inputFolder = <<>>
    /\ outputFolder = ""
    /\ pc = "idle"
    /\ proc = Running
    /\ entries = <<>>
    /\ outputFolderFullPath = "unset"
    /\ paletteBuilt = FALSE
    /\ next = 1
    /\ wg = 0
    /\ workers = <<>>
    /\ outFiles = <<>>
    /\ stdout = <<>>
    /\ syscalls = {}

(***************************************************************************)
(* SpecScale: multiplyColor on bounded inputs                              *)
(***************************************************************************)

\* Every channel position takes every value 0..255 (3 and 5 are invertible
\* modulo 256), together with the pixel of the documented example.
PixelSamples ==
    {<<c, MaxUint8 - c, Uint8(3 * c), Uint8(5 * c)>> : c \in 0..MaxUint8}
        \cup {<<200, 100, 50, 255>>}

InitScale ==
    /\ DriverIdle
    /\ \E p \in PixelSamples, m \in 0..MaxUint8 :
          call = [op |-> "multiplyColor", inputPixel |-> p, multiplier |-> m,
                  returned |-> FALSE, newPixel |-> <<0, 0, 0, 0>>]

ApplyMultiplyColor ==
    /\ call.op = "multiplyColor"
    /\ ~call.returned
    /\ call' = [call EXCEPT !.returned = TRUE,
                            !.newPixel = multiplyColor(call.inputPixel,
                                                       call.multiplier)]
    /\ UNCHANGED driverVars

NextScale == ApplyMultiplyColor

SpecScale == InitScale /\ [][NextScale]_vars

(***************************************************************************)
(* SpecPalette: createAllColors on bounded tables                          *)
(***************************************************************************)

\* the multiplier table and its rotations: four tables of four multipliers
MultiplierTables ==
    {[j \in 1..Len(multipliers) |->
         multipliers[((j - 1 + s) % Len(multipliers)) + 1]] :
        s \in 0..(Len(multipliers) - 1)}

\* every contiguous slice of the base colour table, the empty one included
BaseTables ==
    {SubSeq(baseColors, i, j) :
        i \in 1..Len(baseColors), j \in 0..Len(baseColors)}

InitPalette ==
    /\ DriverIdle
    /\ \E bs \in BaseTables, ms \in MultiplierTables :
          call = [op |-> "createAllColors", baseColors |-> bs,
                  multipliers |-> ms, returned |-> FALSE, allColors |-> <<>>]

ApplyCreateAllColors ==
    /\ call.op = "createAllColors"
    /\ ~call.returned
    /\ call' = [call EXCEPT !.returned = TRUE,
                            !.allColors = createAllColors(call.baseColors,
                                                          call.multipliers)]
    /\ UNCHANGED driverVars

NextPalette == ApplyCreateAllColors

SpecPalette == InitPalette /\ [][NextPalette]_vars

(***************************************************************************)
(* SpecRender: palette lookup and createImageFromPixels on bounded grids   *)
(***************************************************************************)

\* longest colour grid drawn
MaxGridLen == 10

\* strides between consecutive indices of a drawn grid
GridSteps == {0, 1, 7}

\* colours[j] = start + (j-1)*step as a byte: every byte value occurs as a
\* first index, 248..255 (beyond the palette) included
GridSamples ==
    {[j \in 1..n |-> Uint8(start + (j - 1) * step)] :
        n \in 0..MaxGridLen, start \in 0..MaxUint8, step \in GridSteps}

NoImage == [side |-> -1, at |-> <<>>]

InitRender ==
    /\ DriverIdle
    /\ \E cs \in GridSamples :
          call = [op |-> "render", colors |-> cs, stage |-> "colors",
                  pixels |-> <<>>, img |-> NoImage]

\* lines 88-91 of main.go: the lookup loop
RenderLookup ==
    /\ call.op = "render"
    /\ call.stage = "colors"
    /\ LET r == lookupPixels(call.colors, AllColors)
       IN  call' = [call EXCEPT
                      !.stage = IF r.panicked THEN "panic" ELSE "pixels",
                      !.pixels = r.pixels]
    /\ UNCHANGED driverVars

\* line 93: img := createImageFromPixels(pixels)
RenderImage ==
    /\ call.op = "render"
    /\ call.stage = "pixels"
    /\ call' = [call EXCEPT !.stage = "image",
                            !.img = createImageFromPixels(call.pixels)]
    /\ UNCHANGED driverVars

NextRender == RenderLookup \/ RenderImage

SpecRender == InitRender /\ [][NextRender]_vars

(***************************************************************************)
(* Spec: main of src/main.go and the goroutines it starts                  *)
(***************************************************************************)

defaultOutputLocation == "output"

\* values of -i after flag.Parse, as the sections of the cleaned path (the
\* empty tuple is the empty string, the default of -i)
InputFolders == {<<>>, <<"data">>, <<"saves", "world", "data">>}

\* values of -o after flag.Parse ("output" is its default)
OutputFolders == {"", defaultOutputLocation, "exports"}

Init ==
    /\ inputFolder \in InputFolders
    /\ outputFolder \in OutputFolders
    /\ pc = "flags"
    /\ proc = Running
    /\ entries = <<>>
    /\ outputFolderFullPath = "unset"
    /\ paletteBuilt = FALSE
    /\ next = 1
    /\ wg = 0
    /\ workers = <<>>
    /\ outFiles = <<>>
    /\ stdout = <<>>
    /\ syscalls = {}
    /\ call = NoCall

Line(text, name, count) == [text |-> text, name |-> name, count |-> count]

\* log.Fatal: the message is logged and os.Exit(1) ends the process at
\* once; no deferred call runs, no goroutine goes on
Fatal == proc' = Exited(1)

\* faulty variant: only the input flag is looked at
VisitedFlagsInputOnly == <<"i">>

\* flag.VisitAll visits every defined flag in lexicographical order
VisitedFlags == <<"i", "o">>

\* f.Value.String() == ""
flagValueEmpty(name) ==
    IF name = "i" THEN inputFolder = <<>> ELSE outputFolder = ""

\* lines 32-37: the first visited flag with an empty value prints
\* "<name> not set (see -h)" and calls os.Exit(0)
FlagCheck ==
    /\ proc.state = "running"
    /\ pc = "flags"
    /\ LET empty == {k \in 1..Len(VisitedFlags) :
                        flagValueEmpty(VisitedFlags[k])}
       IN  IF empty # {}
               THEN /\ stdout' = Append(stdout,
                          Line("not set (see -h)",
                               VisitedFlags[kthOf(empty, 1)], 0))
                    /\ proc' = Exited(0)
                    /\ pc' = "exit"
               ELSE /\ pc' = "readdir"
                    /\ UNCHANGED <<stdout, proc>>
    /\ UNCHANGED <<inputFolder, outputFolder, entries, outputFolderFullPath,
                   paletteBuilt, next, wg, workers, outFiles, syscalls, call>>

\* lines 40-43: entries, err := os.ReadDir(inputFolder)
ReadDir ==
    /\ proc.state = "running"
    /\ pc = "readdir"
    /\ syscalls' = syscalls \cup {"ReadDir"}
    /\ \/ /\ Fatal
          /\ UNCHANGED <<entries, pc>>
       \/ /\ \E listing \in DirListings : entries' = listing
          /\ pc' = "resolve"
          /\ UNCHANGED proc
    /\ UNCHANGED <<inputFolder, outputFolder, outputFolderFullPath,
                   paletteBuilt, next, wg, workers, outFiles, stdout, call>>

\* getWorldName: the second-last section of the path, an error when the
\* path has fewer than two sections
getWorldName(sections) ==
    IF Len(sections) < 2
        THEN [err |-> TRUE, name |-> ""]
        ELSE [err |-> FALSE, name |-> sections[Len(sections) - 1]]

\* lines 45-69: resolvePath, then either the world-name subfolder of the
\* default location (created when missing) or the folder given, which must
\* exist
ResolveOutput ==
    /\ proc.state = "running"
    /\ pc = "resolve"
    /\ \/ \* filepath.Abs fails
          /\ syscalls' = syscalls \cup {"Abs"}
          /\ Fatal
          /\ UNCHANGED <<pc, outputFolderFullPath, stdout>>
       \/ /\ outputFolder = defaultOutputLocation
          /\ getWorldName(inputFolder).err
          /\ syscalls' = syscalls \cup {"Abs"}
          /\ Fatal
          /\ UNCHANGED <<pc, outputFolderFullPath, stdout>>
       \/ \* createFolderIfNotExist: the folder is missing, MkdirAll fails
          /\ outputFolder = defaultOutputLocation
          /\ ~getWorldName(inputFolder).err
          /\ syscalls' = syscalls \cup {"Abs", "Stat", "MkdirAll"}
          /\ Fatal
          /\ UNCHANGED <<pc, outputFolderFullPath, stdout>>
       \/ \* createFolderIfNotExist: created, or there already
          /\ outputFolder = defaultOutputLocation
          /\ ~getWorldName(inputFolder).err
          /\ \E exists \in BOOLEAN :
                /\ syscalls' = syscalls \cup
                      (IF exists THEN {"Abs", "Stat"}
                                 ELSE {"Abs", "Stat", "MkdirAll"})
                /\ stdout' = Append(stdout,
                      Line(IF exists THEN "folder already exists"
                                     ELSE "folder created",
                           getWorldName(inputFolder).name, 0))
          /\ outputFolderFullPath' =
                <<defaultOutputLocation, getWorldName(inputFolder).name>>
          /\ pc' = "palette"
          /\ UNCHANGED proc
       \/ \* os.Stat(outputFolder) fails
          /\ outputFolder # defaultOutputLocation
          /\ syscalls' = syscalls \cup {"Abs", "Stat"}
          /\ Fatal
          /\ UNCHANGED <<pc, outputFolderFullPath, stdout>>
       \/ /\ outputFolder # defaultOutputLocation
          /\ syscalls' = syscalls \cup {"Abs", "Stat"}
          /\ outputFolderFullPath' = <<outputFolder>>
          /\ pc' = "palette"
          /\ UNCHANGED <<proc, stdout>>
    /\ UNCHANGED <<inputFolder, outputFolder, entries, paletteBuilt, next,
                   wg, workers, outFiles, call>>

\* lines 71-72: startTime := time.Now(); allColors := createAllColors()
BuildPalette ==
    /\ proc.state = "running"
    /\ pc = "palette"
    /\ paletteBuilt' = TRUE
    /\ pc' = "loop"
    /\ UNCHANGED <<inputFolder, outputFolder, proc, entries,
                   outputFolderFullPath, next, wg, workers, outFiles, stdout,
                   syscalls, call>>

\* the palette the goroutines read
allColors == IF paletteBuilt THEN AllColors ELSE <<>>

\* a goroutine just started by the go statement
NewWorker ==
    [pc |-> "start", file |-> 0, mapdata |-> <<>>, colors |-> <<>>,
     pixels |-> <<>>, img |-> NoImage, err |-> "", doneRan |-> FALSE]

\* lines 75-112, one iteration of the range loop: a matching entry gets
\* wg.Add(1) and a goroutine of its own, any other entry is passed over
LoopEntry ==
    /\ proc.state = "running"
    /\ pc = "loop"
    /\ next <= Len(entries)
    /\ IF Matches(entries[next])
           THEN /\ wg' = wg + 1
                /\ workers' = (next :> NewWorker) @@ workers
           ELSE UNCHANGED <<wg, workers>>
    /\ next' = next + 1
    /\ UNCHANGED <<inputFolder, outputFolder, pc, proc, entries,
                   outputFolderFullPath, paletteBuilt, outFiles, stdout,
                   syscalls, call>>

\* faulty variant: no barrier, main goes on at once
WaitReadyAlways == TRUE

\* wg.Wait() returns when the counter is zero
WaitReady == wg = 0

\* line 113: wg.Wait() after the loop
Wait ==
    /\ proc.state = "running"
    /\ pc = "loop"
    /\ next > Len(entries)
    /\ WaitReady
    /\ pc' = "summary"
    /\ UNCHANGED <<inputFolder, outputFolder, proc, entries,
                   outputFolderFullPath, paletteBuilt, next, wg, workers,
                   outFiles, stdout, syscalls, call>>

\* lines 114-117: "exported", len(entries), "maps in", elapsedTime and
\* "output saved to", outputFolderFullPath
PrintSummary ==
    /\ proc.state = "running"
    /\ pc = "summary"
    /\ stdout' = stdout \o <<Line("exported maps in", "", Len(entries)),
                             Line("output saved to", "", 0)>>
    /\ pc' = "return"
    /\ UNCHANGED <<inputFolder, outputFolder, proc, entries,
                   outputFolderFullPath, paletteBuilt, next, wg, workers,
                   outFiles, syscalls, call>>

\* line 118: main returns and the process exits with status 0
MainReturn ==
    /\ proc.state = "running"
    /\ pc = "return"
    /\ proc' = Exited(0)
    /\ pc' = "exit"
    /\ UNCHANGED <<inputFolder, outputFolder, entries, outputFolderFullPath,
                   paletteBuilt, next, wg, workers, outFiles, stdout,
                   syscalls, call>>

\* A panic in a goroutine: its deferred calls run (here wg.Done), then the
\* run time ends the whole process with status 2 (action Crash).
Panicking(w, msg) ==
    [w EXCEPT !.pc = "panicking", !.err = msg, !.doneRan = TRUE]

\* return from the goroutine: the deferred wg.Done runs
Returned(w, msg) == [w EXCEPT !.pc = "done", !.err = msg, !.doneRan = TRUE]

\* variables no goroutine step changes
mainVars == <<inputFolder, outputFolder, pc, entries, outputFolderFullPath,
              paletteBuilt, next, stdout, call>>

\* lines 81-83: mapdata := openFile(filePath)
WOpenFile(i) ==
    /\ proc.state = "running"
    /\ i \in DOMAIN workers
    /\ workers[i].pc = "start"
    /\ syscalls' = syscalls \cup {"ReadFile"}
    /\ \E k \in 1..Len(FileSamples) :
          LET w == [workers[i] EXCEPT !.file = k]
              r == openFile(FileSamples[k])
          IN  CASE r.outcome = "fatal" ->
                      /\ Fatal
                      /\ workers' = [workers EXCEPT ![i] =
                             [w EXCEPT !.pc = "fatal", !.err = "decode"]]
                      /\ UNCHANGED wg
                [] r.outcome = "panic" ->
                      /\ workers' = [workers EXCEPT ![i] =
                             Panicking(w, "nil pointer dereference")]
                      /\ wg' = wg - 1
                      /\ UNCHANGED proc
                [] OTHER ->
                      /\ workers' = [workers EXCEPT ![i] =
                             [w EXCEPT !.pc = "extract",
                                       !.mapdata = r.mapdata]]
                      /\ UNCHANGED <<wg, proc>>
    /\ UNCHANGED <<mainVars, outFiles>>

\* lines 84-85: the two type assertions
WExtract(i) ==
    /\ proc.state = "running"
    /\ i \in DOMAIN workers
    /\ workers[i].pc = "extract"
    /\ LET r == extractColors(workers[i].mapdata)
       IN  IF r.panicked
               THEN /\ workers' = [workers EXCEPT ![i] =
                          Panicking(@, "interface conversion")]
                    /\ wg' = wg - 1
               ELSE /\ workers' = [workers EXCEPT ![i].pc = "lookup",
                                                  ![i].colors = r.colors]
                    /\ UNCHANGED wg
    /\ UNCHANGED <<mainVars, proc, outFiles, syscalls>>

\* lines 88-91: pixels = append(pixels, allColors[c]) for every c
WLookup(i) ==
    /\ proc.state = "running"
    /\ i \in DOMAIN workers
    /\ workers[i].pc = "lookup"
    /\ LET r == lookupPixels(workers[i].colors, allColors)
       IN  IF r.panicked
               THEN /\ workers' = [workers EXCEPT ![i] =
                          Panicking(@, "index out of range")]
                    /\ wg' = wg - 1
               ELSE /\ workers' = [workers EXCEPT ![i].pc = "render",
                                                  ![i].pixels = r.pixels]
                    /\ UNCHANGED wg
    /\ UNCHANGED <<mainVars, proc, outFiles, syscalls>>

\* line 93: img := createImageFromPixels(pixels)
WRender(i) ==
    /\ proc.state = "running"
    /\ i \in DOMAIN workers
    /\ workers[i].pc = "render"
    /\ workers' = [workers EXCEPT
                     ![i].pc = "create",
                     ![i].img = createImageFromPixels(workers[i].pixels)]
    /\ UNCHANGED <<mainVars, proc, wg, outFiles, syscalls>>

OutFile(written, img) == [written |-> written, img |-> img]

\* lines 96-103: os.Create of the output file; on an error it is printed
\* and the goroutine returns
WCreate(i) ==
    /\ proc.state = "running"
    /\ i \in DOMAIN workers
    /\ workers[i].pc = "create"
    /\ syscalls' = syscalls \cup {"Create"}
    /\ \/ /\ workers' = [workers EXCEPT ![i] =
                Returned(@, "Error creating output file")]
          /\ wg' = wg - 1
          /\ UNCHANGED outFiles
       \/ /\ workers' = [workers EXCEPT ![i].pc = "encode"]
          /\ outFiles' = (outputFileName(entries[i]) :> OutFile(FALSE, NoImage))
                            @@ outFiles
          /\ UNCHANGED wg
    /\ UNCHANGED <<mainVars, proc>>

\* lines 105-110: png.Encode into the file; on an error it is printed; the
\* goroutine returns either way (outputFile.Close and wg.Done are deferred)
WEncode(i) ==
    /\ proc.state = "running"
    /\ i \in DOMAIN workers
    /\ workers[i].pc = "encode"
    /\ \/ /\ workers' = [workers EXCEPT ![i] =
                Returned(@, "Error encoding PNG")]
          /\ UNCHANGED outFiles
       \/ /\ workers' = [workers EXCEPT ![i] = Returned(@, "")]
          /\ outFiles' = (outputFileName(entries[i]) :>
                               OutFile(TRUE, workers[i].img)) @@ outFiles
    /\ wg' = wg - 1
    /\ UNCHANGED <<mainVars, proc, syscalls>>

\* an unrecovered panic ends the process with status 2
Crash(i) ==
    /\ proc.state = "running"
    /\ i \in DOMAIN workers
    /\ workers[i].pc = "panicking"
    /\ proc' = Exited(2)
    /\ UNCHANGED <<mainVars, wg, workers, outFiles, syscalls>>

Worker(i) ==
    \/ WOpenFile(i)
    \/ WExtract(i)
    \/ WLookup(i)
    \/ WRender(i)
    \/ WCreate(i)
    \/ WEncode(i)
    \/ Crash(i)

Next ==
    \/ FlagCheck
    \/ ReadDir
    \/ ResolveOutput
    \/ BuildPalette
    \/ LoopEntry
    \/ Wait
    \/ PrintSummary
    \/ MainReturn
    \/ \E i \in 1..Len(DirNames) : Worker(i)

Spec == Init /\ [][Next]_vars

(***************************************************************************)
(* SpecSeq: main of src/unnamed/part_000, the same pipeline run for one    *)
(* entry after the other in the main goroutine.  Its flag check is         *)
(* FlagCheck above (the same lines); outputFolder is joined to the working *)
(* directory when a file is created and nothing is resolved beforehand.    *)
(***************************************************************************)

\* part_000 lines 36-41: os.ReadDir, then startTime := time.Now()
SeqReadDir ==
    /\ proc.state = "running"
    /\ pc = "readdir"
    /\ syscalls' = syscalls \cup {"ReadDir"}
    /\ \/ /\ Fatal
          /\ UNCHANGED <<entries, pc>>
       \/ /\ \E listing \in DirListings : entries' = listing
          /\ pc' = "loop"
          /\ UNCHANGED proc
    /\ UNCHANGED <<inputFolder, outputFolder, outputFolderFullPath,
                   paletteBuilt, next, wg, workers, outFiles, stdout, call>>

\* variables no step of the loop body changes
seqFixed == <<inputFolder, outputFolder, entries, outputFolderFullPath,
              paletteBuilt, wg, call>>

\* a panic in the main goroutine: the process ends with status 2
SeqPanicked(w, msg) == [w EXCEPT !.pc = "panicking", !.err = msg]

\* part_000 line 44: an entry that is no map_*.dat is passed over
SeqSkip ==
    /\ proc.state = "running"
    /\ pc = "loop"
    /\ next <= Len(entries)
    /\ ~Matches(entries[next])
    /\ next' = next + 1
    /\ UNCHANGED <<seqFixed, pc, proc, workers, outFiles, stdout, syscalls>>

\* part_000 lines 44-48: mapdata := openFile(filePath)
SeqOpenFile ==
    /\ proc.state = "running"
    /\ pc = "loop"
    /\ next <= Len(entries)
    /\ Matches(entries[next])
    /\ next \notin DOMAIN workers
    /\ syscalls' = syscalls \cup {"ReadFile"}
    /\ \E k \in 1..Len(FileSamples) :
          LET w == [NewWorker EXCEPT !.file = k]
              r == openFile(FileSamples[k])
          IN  CASE r.outcome = "fatal" ->
                      /\ Fatal
                      /\ workers' = (next :> [w EXCEPT !.pc = "fatal",
                                                       !.err = "decode"])
                                       @@ workers
                [] r.outcome = "panic" ->
                      /\ proc' = Exited(2)
                      /\ workers' = (next :>
                             SeqPanicked(w, "nil pointer dereference"))
                                       @@ workers
                [] OTHER ->
                      /\ workers' = (next :> [w EXCEPT !.pc = "extract",
                                                       !.mapdata = r.mapdata])
                                       @@ workers
                      /\ UNCHANGED proc
    /\ UNCHANGED <<seqFixed, pc, next, outFiles, stdout>>

\* part_000 lines 49-50: the two type assertions
SeqExtract ==
    /\ proc.state = "running"
    /\ pc = "loop"
    /\ next \in DOMAIN workers
    /\ workers[next].pc = "extract"
    /\ LET r == extractColors(workers[next].mapdata)
       IN  IF r.panicked
               THEN /\ workers' = [workers EXCEPT ![next] =
                          SeqPanicked(@, "interface conversion")]
                    /\ proc' = Exited(2)
               ELSE /\ workers' = [workers EXCEPT ![next].pc = "lookup",
                                                  ![next].colors = r.colors]
                    /\ UNCHANGED proc
    /\ UNCHANGED <<seqFixed, pc, next, outFiles, stdout, syscalls>>

\* part_000 lines 53-58: allColors := createAllColors(baseColors,
\* multipliers), then the lookup loop
SeqLookup ==
    /\ proc.state = "running"
    /\ pc = "loop"
    /\ next \in DOMAIN workers
    /\ workers[next].pc = "lookup"
    /\ LET r == lookupPixels(workers[next].colors,
                             createAllColors(baseColors, multipliers))
       IN  IF r.panicked
               THEN /\ workers' = [workers EXCEPT ![next] =
                          SeqPanicked(@, "index out of range")]
                    /\ proc' = Exited(2)
               ELSE /\ workers' = [workers EXCEPT ![next].pc = "render",
                                                  ![next].pixels = r.pixels]
                    /\ UNCHANGED proc
    /\ UNCHANGED <<seqFixed, pc, next, outFiles, stdout, syscalls>>

\* part_000 line 60: img := createImageFromPixels(pixels)
SeqRender ==
    /\ proc.state = "running"
    /\ pc = "loop"
    /\ next \in DOMAIN workers
    /\ workers[next].pc = "render"
    /\ workers' = [workers EXCEPT
                     ![next].pc = "create",
                     ![next].img = createImageFromPixels(workers[next].pixels)]
    /\ UNCHANGED <<seqFixed, pc, proc, next, outFiles, stdout, syscalls>>

\* part_000 lines 63-71: os.Create; on an error it is printed and main
\* returns: the process exits with status 0, the loop is over
SeqCreate ==
    /\ proc.state = "running"
    /\ pc = "loop"
    /\ next \in DOMAIN workers
    /\ workers[next].pc = "create"
    /\ syscalls' = syscalls \cup {"Getwd", "Create"}
    /\ \/ /\ workers' = [workers EXCEPT
                           ![next].pc = "done",
                           ![next].err = "Error creating output file"]
          /\ stdout' = Append(stdout,
                Line("Error creating output file", "", next))
          /\ proc' = Exited(0)
          /\ pc' = "exit"
          /\ UNCHANGED outFiles
       \/ /\ workers' = [workers EXCEPT ![next].pc = "encode"]
          /\ outFiles' = (outputFileName(entries[next]) :>
                               OutFile(FALSE, NoImage)) @@ outFiles
          /\ UNCHANGED <<stdout, proc, pc>>
    /\ UNCHANGED <<seqFixed, next>>

\* part_000 lines 73-80: png.Encode; on an error it is printed and main
\* returns; otherwise "Image saved:" is printed and the loop goes on
SeqEncode ==
    /\ proc.state = "running"
    /\ pc = "loop"
    /\ next \in DOMAIN workers
    /\ workers[next].pc = "encode"
    /\ \/ /\ workers' = [workers EXCEPT ![next].pc = "done",
                                        ![next].err = "Error encoding PNG"]
          /\ stdout' = Append(stdout, Line("Error encoding PNG", "", next))
          /\ proc' = Exited(0)
          /\ pc' = "exit"
          /\ UNCHANGED <<outFiles, next>>
       \/ /\ workers' = [workers EXCEPT ![next].pc = "done"]
          /\ outFiles' = (outputFileName(entries[next]) :>
                               OutFile(TRUE, workers[next].img)) @@ outFiles
          /\ stdout' = Append(stdout, Line("Image saved:", "", next))
          /\ next' = next + 1
          /\ UNCHANGED <<proc, pc>>
    /\ UNCHANGED <<seqFixed, syscalls>>

\* part_000 lines 83-85: "Total execution time" and the return of main
SeqFinish ==
    /\ proc.state = "running"
    /\ pc = "loop"
    /\ next > Len(entries)
    /\ stdout' = Append(stdout, Line("Total execution time", "", 0))
    /\ proc' = Exited(0)
    /\ pc' = "exit"
    /\ UNCHANGED <<seqFixed, next, workers, outFiles, syscalls>>

NextSeq ==
    \/ FlagCheck
    \/ SeqReadDir
    \/ SeqSkip
    \/ SeqOpenFile
    \/ SeqExtract
    \/ SeqLookup
    \/ SeqRender
    \/ SeqCreate
    \/ SeqEncode
    \/ SeqFinish

SpecSeq == Init /\ [][NextSeq]_vars

(***************************************************************************)
(* Properties of the pure functions                                        *)
(***************************************************************************)

\* C6: the palette returned by createAllColors has length N*4 (N base
\* colours, 4 multipliers) and its entry at position baseIndex*4 +
\* multiplierIndex is multiplyColor(baseColors[baseIndex],
\* multipliers[multiplierIndex]), for every baseIndex in 0..N-1 and
\* multiplierIndex in 0..3.  (Positions are 0-based in the program and
\* 1-based in the tuples here.)
C6_PaletteLayout ==
    (call.op = "createAllColors" /\ call.returned) =>
        LET N == Len(call.baseColors)
        IN  /\ Len(call.multipliers) = 4
            /\ Len(call.allColors) = N * 4
            /\ \A baseIndex \in 0..(N - 1), multiplierIndex \in 0..3 :
                  call.allColors[baseIndex * 4 + multiplierIndex + 1] =
                      multiplyColor(call.baseColors[baseIndex + 1],
                                    call.multipliers[multiplierIndex + 1])

\* createAllColors has returned the palette of the program's own tables:
\* 62 * 4 = 248 entries, the last one the darkest shade of the last colour
C6_Witness ==
    /\ call.op = "createAllColors"
    /\ call.returned
    /\ call.baseColors = baseColors
    /\ call.multipliers = multipliers
    /\ Len(call.allColors) = 248
    /\ call.allColors[2] = <<0, 0, 0, 0>>
    /\ call.allColors[6] = <<109, 153, 48, 255>>
    /\ call.allColors[248] = <<67, 88, 79, 255>>

\* C7: multiplyColor returns (floor(r*m/255), floor(g*m/255), floor(b*m/255),
\* a): each of the first three channels is the integer q with
\* q*255 <= channel*m < (q+1)*255, never rounded up, and alpha is unchanged;
\* with m = 255 the first three channels are unchanged, and (200,100,50,255)
\* with m = 180 gives (141,70,35,255).
C7_ScaleColorFloor ==
    (call.op = "multiplyColor" /\ call.returned) =>
        LET p == call.inputPixel
            m == call.multiplier
            q == call.newPixel
        IN  /\ DOMAIN q = 1..4
            /\ \A i \in 1..3 :
                  /\ q[i] \in 0..MaxUint8
                  /\ q[i] * 255 <= p[i] * m
                  /\ p[i] * m < (q[i] + 1) * 255
            /\ q[4] = p[4]
            /\ (m = 255 => \A i \in 1..3 : q[i] = p[i])
            /\ ((p = <<200, 100, 50, 255>> /\ m = 180) =>
                    q = <<141, 70, 35, 255>>)

\* the documented example has been computed
C7_Witness ==
    /\ call.op = "multiplyColor"
    /\ call.returned
    /\ call.inputPixel = <<200, 100, 50, 255>>
    /\ call.multiplier = 180
    /\ call.newPixel = <<141, 70, 35, 255>>

\* C8: for a pixel sequence of length k*k + r with 0 <= r < 2k+1,
\* createImageFromPixels produces a k by k grid whose pixel at (x, y) is the
\* input pixel at flat position y*k + x (the trailing r pixels are left
\* out); a single in-range index i renders to a 1x1 grid holding palette[i],
\* and indices [0,1,2,3] render to rows palette[0],palette[1] and
\* palette[2],palette[3].
C8_RenderLayout ==
    (call.op = "render" /\ call.stage = "image") =>
        LET n   == Len(call.pixels)
            img == call.img
        IN  /\ n = Len(call.colors)
            /\ \A k \in 0..n, r \in 0..(2 * n) :
                  (n = k * k + r /\ r < 2 * k + 1) =>
                      /\ img.side = k
                      /\ DOMAIN img.at = (0..(k - 1)) \X (0..(k - 1))
                      /\ \A x \in 0..(k - 1), y \in 0..(k - 1) :
                            img.at[<<x, y>>] = call.pixels[y * k + x + 1]
            /\ (n = 1 =>
                    /\ img.side = 1
                    /\ img.at[<<0, 0>>] = AllColors[call.colors[1] + 1])
            /\ (call.colors = <<0, 1, 2, 3>> =>
                    /\ img.side = 2
                    /\ img.at[<<0, 0>>] = AllColors[1]
                    /\ img.at[<<1, 0>>] = AllColors[2]
                    /\ img.at[<<0, 1>>] = AllColors[3]
                    /\ img.at[<<1, 1>>] = AllColors[4])

\* a grid of 3*3 + 1 distinct in-range indices has been rendered to 3 by 3
C8_Witness ==
    /\ call.op = "render"
    /\ call.stage = "image"
    /\ Len(call.colors) = 10
    /\ call.colors[1] = 4
    /\ call.colors[2] = 5
    /\ call.img.side = 3
    /\ call.img.at[<<2, 1>>] = AllColors[call.colors[6] + 1]
    /\ call.img.at[<<1, 2>>] = AllColors[call.colors[8] + 1]

(***************************************************************************)
(* Properties of the drivers                                               *)
(***************************************************************************)

\* indices of the directory entries named map_*.dat
MatchingEntries == {j \in 1..Len(entries) : Matches(entries[j])}

\* the summary line "exported <n> maps in <elapsed>" has been printed
SummaryPrinted ==
    \E k \in 1..Len(stdout) : stdout[k].text = "exported maps in"

\* the file opened for entry i, once openFile has been called for it
FileOf(i) == FileSamples[workers[i].file]

\* C1: when openFile fails for one file of a batch of two or more (read,
\* gunzip or parse error), the failure does not end the process: the process
\* ends only after the summary, with every sibling goroutine finished.
C1_DecodeErrorContained ==
    \A i \in DOMAIN workers :
        (/\ Cardinality(MatchingEntries) >= 2
         /\ workers[i].file # 0
         /\ DecodeFails(FileOf(i))) =>
            \/ proc.state = "running"
            \/ /\ SummaryPrinted
               /\ \A j \in MatchingEntries \ {i} :
                     j \in DOMAIN workers /\ workers[j].doneRan

\* C2: whenever main has printed the summary line, or is past wg.Wait, every
\* goroutine dispatched for a matching entry has run its wg.Done; none is
\* still running or not yet started.
C2_JoinBarrier ==
    (SummaryPrinted \/ pc \in {"summary", "return"}) =>
        \A j \in MatchingEntries :
            /\ j \in DOMAIN workers
            /\ workers[j].doneRan
            /\ workers[j].pc \in {"done", "panicking"}

\* the summary has been printed after two goroutines wrote their images
C2_Witness ==
    /\ SummaryPrinted
    /\ Cardinality(DOMAIN workers) >= 2
    /\ \A j \in DOMAIN workers :
          /\ workers[j].pc = "done"
          /\ workers[j].err = ""
          /\ outFiles[outputFileName(entries[j])].written

\* C3: a colour byte c >= len(palette) met by the lookup gives that file a
\* "palette index out of range" error; the lookup never fails with an
\* unhandled bounds fault.
C3_OutOfRangeIsError ==
    \A i \in DOMAIN workers :
        (/\ workers[i].pc \notin {"start", "extract", "lookup", "fatal"}
         /\ \E j \in 1..Len(workers[i].colors) :
               workers[i].colors[j] >= Len(AllColors)) =>
            /\ workers[i].pc # "panicking"
            /\ workers[i].err = "palette index out of range"

\* C4: a decoded tree without a "data" mapping holding a "colors" byte array
\* ends that file's processing with an "unexpected map data shape" error,
\* not with a crash of the run.
C4_ShapeErrorContained ==
    \A i \in DOMAIN workers :
        (/\ workers[i].pc \notin {"start", "extract", "fatal"}
         /\ workers[i].file # 0
         /\ ShapeFails(FileOf(i))) =>
            /\ workers[i].pc # "panicking"
            /\ workers[i].err = "unexpected map data shape"

\* a write failure (os.Create or png.Encode) has been reported for entry i
WriteFailed(i) ==
    workers[i].err \in {"Error creating output file", "Error encoding PNG"}

\* C5: a write failure on one file does not stop the processing of the
\* files that remain: the process does not end while a matching entry has
\* not been taken up.
C5_WriteErrorContained ==
    \A i \in DOMAIN workers :
        WriteFailed(i) =>
            \/ proc.state = "running"
            \/ \A j \in MatchingEntries : j \in DOMAIN workers

\* C9: the count printed in the summary line is the number of entries named
\* map_*.dat, the ones dispatched through the pipeline.
C9_SummaryCount ==
    \A k \in 1..Len(stdout) :
        stdout[k].text = "exported maps in" =>
            /\ stdout[k].count = Cardinality(MatchingEntries)
            /\ stdout[k].count = Cardinality(DOMAIN workers)

\* C10: when -i or -o is empty after flag parsing, no work is ever done (no
\* file-system call, no directory read, no output directory resolved, no
\* palette, no goroutine, no output file), and once the flag check has run
\* the process has exited with status 0 after printing the usage hint for
\* the first empty flag.
C10_EmptyFlagExit ==
    (inputFolder = <<>> \/ outputFolder = "") =>
        /\ syscalls = {}
        /\ entries = <<>>
        /\ outputFolderFullPath = "unset"
        /\ ~paletteBuilt
        /\ DOMAIN workers = {}
        /\ wg = 0
        /\ DOMAIN outFiles = {}
        /\ pc \in {"flags", "exit"}
        /\ (pc = "exit" =>
               /\ proc = Exited(0)
               /\ Len(stdout) = 1
               /\ stdout[1].text = "not set (see -h)"
               /\ stdout[1].name = IF inputFolder = <<>> THEN "i" ELSE "o")

\* -i was given and -o is empty: the hint for o was printed, status 0
C10_Witness ==
    /\ inputFolder # <<>>
    /\ outputFolder = ""
    /\ pc = "exit"
    /\ proc = Exited(0)
    /\ stdout = <<Line("not set (see -h)", "o", 0)>>
    /\ syscalls = {}

=============================================================================
